---- MODULE Spec2Model ----
(***************************************************************************)
(* BlenderFDS, algorithms for triangulated surfaces                        *)
(* (geometry/calc_trisurfaces.py): get_trisurface, check_geom_quality and  *)
(* check_intersections, run on one host object.                            *)
(*                                                                         *)
(* Conventions.  Vertices and faces carry the 0-based index the host gives *)
(* them; co[v + 1] is the position of vertex v and faces[f + 1] the vertex *)
(* tuple of face f.  Positions are integer triples on a grid, tolerances   *)
(* are integers in the same unit, and every comparison of a length or an   *)
(* area with a tolerance is made on the squares, which is exact.  World    *)
(* matrices are translations, written as the translation vector.           *)
(***************************************************************************)
EXTENDS Integers, Sequences, FiniteSets, TLC

VARIABLES ob, scene, call, pc, ci, bm, mas, ran, failures, isect_bad_faces, exc, result, before,
          previous, steps

vars == <<ob, scene, call, pc, ci, bm, mas, ran, failures, isect_bad_faces, exc, result, before, previous, steps>>

(***************************************************************************)
(* Bounds of the model.                                                    *)
(***************************************************************************)
MaxFaces == 4
MaxSlots == 2

None == "None"

(***************************************************************************)
(* Vectors.                                                                *)
(***************************************************************************)
VAdd(a, b) == <<a[1] + b[1], a[2] + b[2], a[3] + b[3]>>
VSub(a, b) == <<a[1] - b[1], a[2] - b[2], a[3] - b[3]>>
VNeg(a) == <<0 - a[1], 0 - a[2], 0 - a[3]>>
\* a scaling that reaches the first component only
VScale_first_only(a, k) == <<a[1] * k, a[2], a[3]>>

VScale(a, k) == <<a[1] * k, a[2] * k, a[3] * k>>
VCross(a, b) == <<a[2] * b[3] - a[3] * b[2], a[3] * b[1] - a[1] * b[3], a[1] * b[2] - a[2] * b[1]>>
VLenSq(a) == a[1] * a[1] + a[2] * a[2] + a[3] * a[3]

(***************************************************************************)
(* The mesh model (BMesh): vertices, faces, edges, loops.                  *)
(***************************************************************************)
Verts(m) == 0 .. (Len(m.co) - 1)
Faces(m) == 0 .. (Len(m.faces) - 1)
FaceVerts(m, f) == m.faces[f + 1]
FaceEdges(m, f) ==
    LET p == FaceVerts(m, f)
    IN  {{p[i], p[(i % Len(p)) + 1]} : i \in 1 .. Len(p)}
Edges(m) == UNION {FaceEdges(m, f) : f \in Faces(m)} \cup m.wire

\* link_faces, link_edges and the faces around an edge (its radial loops)
VertFaces(m, v) == {f \in Faces(m) : \E i \in 1 .. Len(FaceVerts(m, f)) : FaceVerts(m, f)[i] = v}
VertEdges(m, v) ==
    {e \in UNION {FaceEdges(m, f) : f \in VertFaces(m, v)} : v \in e}
        \cup {e \in m.wire : v \in e}
EdgeFaces(m, e) == {f \in Faces(m) : e \in FaceEdges(m, f)}

\* the vertex at which face f starts its traversal of edge e
LoopVert(m, f, e) ==
    LET p == FaceVerts(m, f)
        i == CHOOSE j \in 1 .. Len(p) : {p[j], p[(j % Len(p)) + 1]} = e
    IN  p[i]

\* the edges of the mesh in a fixed enumeration order (by smaller, then larger vertex)
EdgeSeq(m) ==
    LET n == Len(m.co)
        all == [k \in 1 .. n * n |-> {(k - 1) \div n, (k - 1) % n}]
        mine == Edges(m)
        pick(k) == (k - 1) \div n < (k - 1) % n /\ all[k] \in mine
        RECURSIVE walk(_)
        walk(k) == IF k > n * n THEN <<>>
                   ELSE IF pick(k) THEN <<all[k]>> \o walk(k + 1) ELSE walk(k + 1)
    IN  walk(1)
VertSeq(m) == [i \in 1 .. Len(m.co) |-> i - 1]
FaceSeq(m) == [i \in 1 .. Len(m.faces) |-> i - 1]

Range(s) == {s[i] : i \in 1 .. Len(s)}

\* the numbers of a set in increasing order
RECURSIVE SortedSeq(_)
SortedSeq(S) ==
    IF S = {} THEN <<>>
    ELSE LET x == CHOOSE y \in S : \A z \in S : y <= z
         IN  <<x>> \o SortedSeq(S \ {x})

\* BMEdge.is_manifold: the edge has exactly two face users
EdgeIsManifold(m, e) == Cardinality(EdgeFaces(m, e)) = 2

\* BMEdge.is_boundary: the edge has exactly one face user
EdgeIsBoundary(m, e) == Cardinality(EdgeFaces(m, e)) = 1

\* is_contiguous that looks at the number of face users only
EdgeIsContiguous_two_faces(m, e) == Cardinality(EdgeFaces(m, e)) = 2

\* BMEdge.is_contiguous: exactly two face users, which run along the edge in
\* opposite directions
EdgeIsContiguous(m, e) ==
    /\ Cardinality(EdgeFaces(m, e)) = 2
    /\ \A f, g \in EdgeFaces(m, e) : f # g => LoopVert(m, f, e) # LoopVert(m, g, e)

\* the faces around v reached by stepping from face to face over the
\* manifold edges at v, starting from the faces in region
RECURSIVE FanRegion(_, _, _)
FanRegion(m, v, region) ==
    LET step == {g \in VertFaces(m, v) \ region :
                    \E f \in region : \E e \in FaceEdges(m, f) \cap FaceEdges(m, g) :
                        v \in e /\ EdgeIsManifold(m, e)}
    IN  IF step = {} THEN region ELSE FanRegion(m, v, region \cup step)

\* the face the fan walk starts from: at a boundary edge when there is one
FanStart(m, v) ==
    LET bnd == {e \in VertEdges(m, v) : EdgeIsBoundary(m, e)}
    IN  IF bnd # {}
        THEN CHOOSE f \in VertFaces(m, v) : \E e \in bnd : f \in EdgeFaces(m, e)
        ELSE CHOOSE f \in VertFaces(m, v) : TRUE

\* BMVert.is_manifold: not loose, no wire edge and no edge with more than two
\* faces at the vertex, fewer than three boundary edges, and one fan walk
\* covers every face around the vertex
VertIsManifold(m, v) ==
    /\ VertEdges(m, v) # {}
    /\ \A e \in VertEdges(m, v) : Cardinality(EdgeFaces(m, e)) \in {1, 2}
    /\ Cardinality({e \in VertEdges(m, v) : EdgeIsBoundary(m, e)}) < 3
    /\ FanRegion(m, v, {FanStart(m, v)}) = VertFaces(m, v)

\* BMEdge.calc_length() <= epsilon_len, on the squares
EdgeLenSq(m, e) ==
    LET a == CHOOSE x \in e : \A y \in e : x <= y
        b == CHOOSE x \in e : \A y \in e : y <= x
    IN  VLenSq(VSub(m.co[a + 1], m.co[b + 1]))

\* (2 * BMFace.calc_area()) ^ 2 of a triangle
FaceArea2Sq(m, f) ==
    LET p == FaceVerts(m, f)
    IN  VLenSq(VCross(VSub(m.co[p[2] + 1], m.co[p[1] + 1]),
                      VSub(m.co[p[3] + 1], m.co[p[1] + 1])))

(***************************************************************************)
(* The host side: mesh data, object, scene.                                *)
(***************************************************************************)
ObName == "ob"

NoBMesh ==
    [valid |-> FALSE, co |-> <<>>, faces |-> <<>>, mat |-> <<>>, wire |-> {},
     vsel |-> {}, esel |-> {}, fsel |-> {}]

NoCall == [fn |-> None, protect |-> TRUE, check |-> TRUE, scale_length |-> 1, other_obs |-> <<>>]

NoResult == [returned |-> FALSE, mas |-> <<>>, verts |-> <<>>, faces |-> <<>>]

\* bmesh.ops.triangulate: every face becomes a fan of triangles from its first
\* vertex, each with the material index of the face, in face order; orig is
\* the index of the face each triangle comes from
RECURSIVE Triangulate(_, _, _)
Triangulate(faces, mat, f) ==
    IF faces = <<>> THEN [faces |-> <<>>, mat |-> <<>>, orig |-> <<>>]
    ELSE LET p == Head(faces)
             fan == [k \in 1 .. (Len(p) - 2) |-> <<p[1], p[k + 1], p[k + 2]>>]
             rest == Triangulate(Tail(faces), Tail(mat), f + 1)
         IN  [faces |-> fan \o rest.faces,
              mat |-> [k \in 1 .. (Len(p) - 2) |-> Head(mat)] \o rest.mat,
              orig |-> [k \in 1 .. (Len(p) - 2) |-> f] \o rest.orig]

\* the offset the modifier stack of the object applies to every vertex
RECURSIVE ModifierOffset(_)
ModifierOffset(mods) ==
    IF mods = <<>> THEN <<0, 0, 0>> ELSE VAdd(Head(mods), ModifierOffset(Tail(mods)))

\* get_object_bmesh that never triangulates
get_object_bmesh_untriangulated(o, matrix, world, triangulate) ==
    LET d == o.data
        shift == VAdd(ModifierOffset(o.modifiers),
                      VAdd(matrix, IF world THEN o.matrix_world ELSE <<0, 0, 0>>))
    IN  [valid |-> TRUE,
         co |-> [i \in 1 .. Len(d.co) |-> VAdd(d.co[i], shift)],
         faces |-> d.faces, mat |-> d.mat, wire |-> d.wire,
         vsel |-> d.vsel, esel |-> d.esel, fsel |-> d.fsel]

\* utils.get_object_bmesh: a new BMesh of the evaluated object (modifiers
\* applied), transformed by matrix, then by the world matrix when world is
\* set, then triangulated when triangulate is set.  The object is only read.
get_object_bmesh(o, matrix, world, triangulate) ==
    LET d == o.data
        shift == VAdd(ModifierOffset(o.modifiers),
                      VAdd(matrix, IF world THEN o.matrix_world ELSE <<0, 0, 0>>))
        tri == IF triangulate THEN Triangulate(d.faces, d.mat, 0)
               ELSE [faces |-> d.faces, mat |-> d.mat, orig |-> FaceSeq(d)]
    IN  [valid |-> TRUE,
         co |-> [i \in 1 .. Len(d.co) |-> VAdd(d.co[i], shift)],
         faces |-> tri.faces, mat |-> tri.mat, wire |-> d.wire,
         vsel |-> d.vsel, esel |-> d.esel,
         fsel |-> {t \in 0 .. (Len(tri.faces) - 1) : tri.orig[t + 1] \in d.fsel}]

\* BMesh.to_mesh: the mesh data an object gets from a BMesh
to_mesh(b) ==
    [co |-> b.co, faces |-> b.faces, mat |-> b.mat, wire |-> b.wire,
     vsel |-> b.vsel, esel |-> b.esel, fsel |-> b.fsel]

(***************************************************************************)
(* _get_materials                                                          *)
(***************************************************************************)
RECURSIVE get_materials_from(_, _)
get_materials_from(slots, acc) ==
    IF slots = <<>> THEN [ok |-> TRUE, mas |-> acc, msg |-> None]
    ELSE LET ma == Head(slots)
         IN  IF ma.material = None
             THEN [ok |-> FALSE, mas |-> <<>>, msg |-> "EmptyMaterialSlot"]
             ELSE IF ~ma.bf_surf_export
             THEN [ok |-> FALSE, mas |-> <<>>, msg |-> "MaterialNotExported"]
             ELSE get_materials_from(Tail(slots), Append(acc, ma.material))

\* _get_materials that looks for an unbound slot in all slots first
get_materials_unbound_first(o) ==
    IF Len(o.material_slots) = 0
    THEN [ok |-> FALSE, mas |-> <<>>, msg |-> "NoMaterial"]
    ELSE IF \E i \in 1 .. Len(o.material_slots) : o.material_slots[i].material = None
    THEN [ok |-> FALSE, mas |-> <<>>, msg |-> "EmptyMaterialSlot"]
    ELSE get_materials_from(o.material_slots, <<>>)

get_materials(o) ==
    IF Len(o.material_slots) = 0
    THEN [ok |-> FALSE, mas |-> <<>>, msg |-> "NoMaterial"]
    ELSE get_materials_from(o.material_slots, <<>>)

(***************************************************************************)
(* _raise_bad_geometry                                                     *)
(***************************************************************************)
\* the selection of the bad elements without the deselection before it
SelectBad_keeping(b, bad_verts, bad_edges, bad_faces) ==
    LET fs == Range(bad_faces) \cup b.fsel
        es == Range(bad_edges) \cup UNION {FaceEdges(b, f) : f \in fs} \cup b.esel
        vs == Range(bad_verts) \cup UNION es \cup b.vsel
    IN  [b EXCEPT !.vsel = vs, !.esel = es, !.fsel = fs]

\* select = True on faces, edges, vertices: a selected face selects its edges
\* and vertices, a selected edge its vertices
SelectBad(b, bad_verts, bad_edges, bad_faces) ==
    LET fs == Range(bad_faces)
        es == Range(bad_edges) \cup UNION {FaceEdges(b, f) : f \in fs}
        vs == Range(bad_verts) \cup UNION es
    IN  [b EXCEPT !.vsel = vs, !.esel = es, !.fsel = fs]

SelectType(bad_verts, bad_edges, bad_faces) ==
    IF bad_verts # <<>> THEN "VERT"
    ELSE IF bad_edges # <<>> THEN "EDGE"
    ELSE IF bad_faces # <<>> THEN "FACE"
    ELSE None

\* what _raise_bad_geometry does to the host when the object is not protected
Surface(sc, o, b, msg, bad_verts, bad_edges, bad_faces, raised) ==
    LET sel == SelectBad(b, bad_verts, bad_edges, bad_faces)
        st == SelectType(bad_verts, bad_edges, bad_faces)
    IN  [ob |-> [o EXCEPT !.modifiers = <<>>, !.data = to_mesh(sel)],
         scene |-> [sc EXCEPT !.mode = "EDIT", !.active = ObName,
                              !.selected = {ObName}, !.select_mode = st],
         bm |-> [sel EXCEPT !.valid = FALSE],
         raised |-> raised,
         exc |-> IF raised THEN msg ELSE [kind |-> None, n |-> 0],
         steps |-> <<"deselect_all", "select_bad", "modifiers_clear", "to_mesh",
                     "free", "select_object", "mode_edit", "select_mode">>
                       \o (IF raised THEN <<"raise">> ELSE <<>>)]

\* _raise_bad_geometry without its last line: an unprotected failure is shown
\* but not raised
raise_bad_geometry_returns(sc, o, b, msg, protect, bad_verts, bad_edges, bad_faces) ==
    IF protect
    THEN [ob |-> o, scene |-> sc, bm |-> b, raised |-> TRUE, exc |-> msg, steps |-> <<>>]
    ELSE Surface(sc, o, b, msg, bad_verts, bad_edges, bad_faces, FALSE)

\* _raise_bad_geometry that returns instead of raising when protect is set
raise_bad_geometry_protect_returns(sc, o, b, msg, protect, bad_verts, bad_edges, bad_faces) ==
    IF protect
    THEN [ob |-> o, scene |-> sc, bm |-> b, raised |-> FALSE,
          exc |-> [kind |-> None, n |-> 0], steps |-> <<>>]
    ELSE Surface(sc, o, b, msg, bad_verts, bad_edges, bad_faces, TRUE)

\* _raise_bad_geometry that does not look at protect
raise_bad_geometry_unprotected(sc, o, b, msg, protect, bad_verts, bad_edges, bad_faces) ==
    Surface(sc, o, b, msg, bad_verts, bad_edges, bad_faces, TRUE)

\* The state the call leaves and the exception it raises.  steps lists what it
\* did to the host, in order.
raise_bad_geometry(sc, o, b, msg, protect, bad_verts, bad_edges, bad_faces) ==
    IF protect
    THEN [ob |-> o, scene |-> sc, bm |-> b, raised |-> TRUE, exc |-> msg, steps |-> <<>>]
    ELSE Surface(sc, o, b, msg, bad_verts, bad_edges, bad_faces, TRUE)

(***************************************************************************)
(* The quality checks: the offending elements each one collects.           *)
(***************************************************************************)
bad_manifold_verts(b) == SelectSeq(VertSeq(b), LAMBDA v : ~VertIsManifold(b, v))

\* the manifold-edge check that takes only the edges with more than two faces
bad_manifold_edges_branching(b) ==
    SelectSeq(EdgeSeq(b), LAMBDA e : Cardinality(EdgeFaces(b, e)) > 2)

bad_manifold_edges(b) == SelectSeq(EdgeSeq(b), LAMBDA e : ~EdgeIsManifold(b, e))

bad_normals(b) == SelectSeq(EdgeSeq(b), LAMBDA e : ~EdgeIsContiguous(b, e))

\* the degenerate-edge check with a strict comparison
bad_degenerate_edges_strict(b, epsilon_len) ==
    SelectSeq(EdgeSeq(b), LAMBDA e : EdgeLenSq(b, e) < epsilon_len * epsilon_len)

bad_degenerate_edges(b, epsilon_len) ==
    SelectSeq(EdgeSeq(b), LAMBDA e : EdgeLenSq(b, e) <= epsilon_len * epsilon_len)

\* the degenerate-face check with a strict comparison
bad_degenerate_faces_strict(b, epsilon_area) ==
    SelectSeq(FaceSeq(b), LAMBDA f : FaceArea2Sq(b, f) < 4 * epsilon_area * epsilon_area)

bad_degenerate_faces(b, epsilon_area) ==
    SelectSeq(FaceSeq(b), LAMBDA f : FaceArea2Sq(b, f) <= 4 * epsilon_area * epsilon_area)

bad_loose_vertices(b) == SelectSeq(VertSeq(b), LAMBDA v : VertEdges(b, v) = {})

\* find_range that leaves out the points at the very place asked for
find_range_apart(b, co, radius) ==
    LET dist(i) == VLenSq(VSub(b.co[i + 1], co))
    IN  SortedSeq({i \in Verts(b) : 0 < dist(i) /\ dist(i) <= radius * radius})

\* KDTree.find_range: the indices of the points within radius of co, nearest
\* first (equal distances by index)
find_range(b, co, radius) ==
    LET n == Len(b.co)
        dist(i) == VLenSq(VSub(b.co[i + 1], co))
        near == {i \in Verts(b) : dist(i) <= radius * radius}
        RECURSIVE sorted(_)
        sorted(s) == IF s = {} THEN <<>>
                     ELSE LET i == CHOOSE x \in s : \A y \in s :
                                       dist(x) < dist(y) \/ (dist(x) = dist(y) /\ x <= y)
                          IN  <<i>> \o sorted(s \ {i})
    IN  sorted(near)

RECURSIVE bad_duplicate_from(_, _, _)
bad_duplicate_from(b, epsilon_len, v) ==
    IF v >= Len(b.co) THEN <<>>
    ELSE LET vert_group == find_range(b, b.co[v + 1], epsilon_len)
         IN  (IF Len(vert_group) > 1 THEN vert_group ELSE <<>>)
                 \o bad_duplicate_from(b, epsilon_len, v + 1)

bad_duplicate_vertices(b, epsilon_len) == bad_duplicate_from(b, epsilon_len, 0)

(***************************************************************************)
(* Intersections: BVHTree.FromBMesh and BVHTree.overlap.                   *)
(***************************************************************************)
\* six times the signed volume of the tetrahedron a b c d
Orient(a, b, c, d) ==
    LET n == VCross(VSub(b, a), VSub(c, a))
        w == VSub(d, a)
    IN  n[1] * w[1] + n[2] * w[2] + n[3] * w[3]

\* the segment p q, not lying in the plane of the triangle t, meets that plane
\* in a point of the triangle other than the point skip
SegmentMeetsTri(p, q, t, skip) ==
    LET dp == Orient(t[1], t[2], t[3], p)
        dq == Orient(t[1], t[2], t[3], q)
        s1 == Orient(p, q, t[1], t[2])
        s2 == Orient(p, q, t[2], t[3])
        s3 == Orient(p, q, t[3], t[1])
    IN  /\ ~(dp = 0 /\ dq = 0)
        /\ (dp <= 0 /\ dq >= 0) \/ (dp >= 0 /\ dq <= 0)
        /\ (s1 >= 0 /\ s2 >= 0 /\ s3 >= 0) \/ (s1 <= 0 /\ s2 <= 0 /\ s3 <= 0)
        /\ ~(dp = 0 /\ <<p>> = skip)
        /\ ~(dq = 0 /\ <<q>> = skip)

\* two triangles in different planes have a common point other than skip
\* (triangles in one plane are never reported)
TriTriIntersect(s, t, skip) ==
    \/ \E i \in 1 .. 3 : SegmentMeetsTri(s[i], s[(i % 3) + 1], t, skip)
    \/ \E i \in 1 .. 3 : SegmentMeetsTri(t[i], t[(i % 3) + 1], s, skip)

\* BVHTree.FromBMesh: the triangles of the faces, with their vertex indices,
\* their positions and the face each comes from
FromBMesh(b, id) ==
    LET tri == Triangulate(b.faces, b.mat, 0)
    IN  [id |-> id,
         tris |-> tri.faces,
         cos |-> [k \in 1 .. Len(tri.faces) |->
                     [i \in 1 .. 3 |-> b.co[tri.faces[k][i] + 1]]],
         orig |-> tri.orig]

\* overlap that treats a tree paired with itself like any two trees
overlap_all_pairs(tree, other_tree) ==
    {pr \in (1 .. Len(tree.tris)) \X (1 .. Len(other_tree.tris)) :
        TriTriIntersect(tree.cos[pr[1]], other_tree.cos[pr[2]], <<>>)}

\* BVHTree.overlap: the pairs of triangles that intersect.  Within one tree a
\* triangle is not paired with itself nor with a triangle sharing two of its
\* vertices, and a pair sharing one vertex counts only when the triangles meet
\* elsewhere too.
overlap(tree, other_tree) ==
    {pr \in (1 .. Len(tree.tris)) \X (1 .. Len(other_tree.tris)) :
        LET a == tree.tris[pr[1]]
            b == other_tree.tris[pr[2]]
            same == tree.id = other_tree.id
            shared == Range(a) \cap Range(b)
            skip == IF same /\ Cardinality(shared) = 1
                    THEN <<tree.cos[pr[1]][CHOOSE i \in 1 .. 3 : a[i] \in shared]>>
                    ELSE <<>>
        IN  /\ same => (pr[1] # pr[2] /\ Cardinality(shared) < 2)
            /\ TriTriIntersect(tree.cos[pr[1]], other_tree.cos[pr[2]], skip)}

\* _get_bm_intersected_faces that takes the second index of the pairs
get_bm_intersected_faces_second(b, tree, other_tree) ==
    LET ov == overlap(tree, other_tree)
        ifaces == {other_tree.orig[pr[2]] : pr \in ov}
    IN  SelectSeq(FaceSeq(b), LAMBDA f : f \in ifaces)

\* _get_bm_intersected_faces: the faces of bm in some overlapping pair, once each
get_bm_intersected_faces(b, tree, other_tree) ==
    LET ov == overlap(tree, other_tree)
        ifaces == {tree.orig[pr[1]] : pr \in ov}
    IN  SelectSeq(FaceSeq(b), LAMBDA f : f \in ifaces)

(***************************************************************************)
(* bmesh.ops.recalc_face_normals on a mesh whose edges are all contiguous: *)
(* every connected part of the surface that encloses a negative volume is  *)
(* turned inside out, so that all normals point outwards.                  *)
(***************************************************************************)
RECURSIVE Island(_, _)
Island(b, region) ==
    LET step == {g \in Faces(b) : \E f \in region : FaceEdges(b, f) \cap FaceEdges(b, g) # {}}
    IN  IF step \subseteq region THEN region ELSE Island(b, region \cup step)

RECURSIVE SumVolume(_, _)
SumVolume(b, fs) ==
    IF fs = {} THEN 0
    ELSE LET f == CHOOSE x \in fs : TRUE
             p == FaceVerts(b, f)
         IN  Orient(<<0, 0, 0>>, b.co[p[1] + 1], b.co[p[2] + 1], b.co[p[3] + 1])
                 + SumVolume(b, fs \ {f})

recalc_face_normals(b) ==
    [b EXCEPT !.faces =
        [k \in 1 .. Len(b.faces) |->
            IF SumVolume(b, Island(b, {k - 1})) < 0
            THEN <<b.faces[k][1], b.faces[k][3], b.faces[k][2]>>
            ELSE b.faces[k]]]

(***************************************************************************)
(* _check_bm_quality: the checks, in the order they are called.            *)
(***************************************************************************)
\* the checks with the normals third
check_bm_quality_normals_third ==
    <<"manifold_verts", "manifold_edges", "normals", "degenerate_edges",
      "degenerate_faces", "loose_vertices", "duplicate_vertices">>

\* the checks with the duplicate vertices before the degenerate edges
check_bm_quality_duplicates_first ==
    <<"manifold_verts", "manifold_edges", "duplicate_vertices", "degenerate_edges",
      "degenerate_faces", "loose_vertices", "normals">>

check_bm_quality ==
    <<"manifold_verts", "manifold_edges", "degenerate_edges", "degenerate_faces",
      "loose_vertices", "duplicate_vertices", "normals">>

NoExc == [kind |-> None, n |-> 0]

\* a failure whose offending elements are all handed over as vertices
Failure_as_verts(kind, bad_verts, bad_edges, bad_faces) ==
    [kind |-> kind, bad_verts |-> bad_verts \o bad_edges \o bad_faces,
     bad_edges |-> <<>>, bad_faces |-> <<>>]

Failure(kind, bad_verts, bad_edges, bad_faces) ==
    [kind |-> kind, bad_verts |-> bad_verts, bad_edges |-> bad_edges, bad_faces |-> bad_faces]

\* where a run goes once _check_bm_quality has returned
AfterQuality == IF call.fn = "get_trisurface" THEN "extract" ELSE "free"

\* One check of _check_bm_quality: with offending elements it calls
\* _raise_bad_geometry, without it returns and the next check runs.
\* fixed is the mesh model the check leaves when it finds nothing.
CheckStep(name, kind, bad_verts, bad_edges, bad_faces, fixed) ==
    /\ pc = "quality"
    /\ ci <= Len(check_bm_quality)
    /\ check_bm_quality[ci] = name
    /\ ran' = Append(ran, name)
    /\ LET n == Len(bad_verts) + Len(bad_edges) + Len(bad_faces)
           r == raise_bad_geometry(scene, ob, bm, [kind |-> kind, n |-> n], call.protect,
                                   bad_verts, bad_edges, bad_faces)
       IN  IF n > 0
           THEN /\ failures' = Append(failures, Failure(kind, bad_verts, bad_edges, bad_faces))
                /\ ob' = r.ob
                /\ scene' = r.scene
                /\ bm' = r.bm
                /\ steps' = r.steps
                /\ IF r.raised
                   THEN exc' = r.exc /\ pc' = "raised" /\ ci' = ci
                   ELSE exc' = exc /\ ci' = ci + 1
                        /\ pc' = IF ci = Len(check_bm_quality) THEN AfterQuality ELSE "quality"
           ELSE /\ bm' = fixed
                /\ ci' = ci + 1
                /\ pc' = IF ci = Len(check_bm_quality) THEN AfterQuality ELSE "quality"
                /\ UNCHANGED <<ob, scene, failures, exc, steps>>
    /\ UNCHANGED <<call, mas, isect_bad_faces, result, before, previous>>

check_bm_manifold_verts ==
    CheckStep("manifold_verts", "NonManifoldVertex", bad_manifold_verts(bm), <<>>, <<>>, bm)

check_bm_manifold_edges ==
    CheckStep("manifold_edges", "NonManifoldEdge", <<>>, bad_manifold_edges(bm), <<>>, bm)

check_bm_degenerate_edges ==
    CheckStep("degenerate_edges", "DegenerateEdge", <<>>,
              bad_degenerate_edges(bm, scene.bf_config_min_edge_length), <<>>, bm)

check_bm_degenerate_faces ==
    CheckStep("degenerate_faces", "DegenerateFace", <<>>, <<>>,
              bad_degenerate_faces(bm, scene.bf_config_min_face_area), bm)

check_bm_loose_vertices ==
    CheckStep("loose_vertices", "LooseVertex", bad_loose_vertices(bm), <<>>, <<>>, bm)

check_bm_duplicate_vertices ==
    CheckStep("duplicate_vertices", "DuplicateVertex",
              bad_duplicate_vertices(bm, scene.bf_config_min_edge_length), <<>>, <<>>, bm)

\* _check_bm_normals that recalculates the normals with protect set too
check_bm_normals_recalc_always ==
    CheckStep("normals", "InconsistentNormals", <<>>, bad_normals(bm), <<>>,
              recalc_face_normals(bm))

check_bm_normals ==
    CheckStep("normals", "InconsistentNormals", <<>>, bad_normals(bm), <<>>,
              IF call.protect THEN bm ELSE recalc_face_normals(bm))

(***************************************************************************)
(* The entry points.                                                       *)
(***************************************************************************)
\* before keeps the object and the scene as they are when the call is made
Enter(c, first) ==
    /\ pc = "idle"
    /\ call' = c
    /\ pc' = first
    /\ ci' = 1
    /\ bm' = NoBMesh
    /\ mas' = <<>>
    /\ ran' = <<>>
    /\ failures' = <<>>
    /\ isect_bad_faces' = <<>>
    /\ exc' = NoExc
    /\ result' = NoResult
    /\ before' = [ob |-> ob, scene |-> scene]
    /\ steps' = <<>>
    /\ UNCHANGED <<ob, scene, previous>>

\* get_trisurface(context, ob, scale_length, check): the quality check, when
\* made, always protects the object
get_trisurface(scale_length, check) ==
    Enter([fn |-> "get_trisurface", protect |-> TRUE, check |-> check,
           scale_length |-> scale_length, other_obs |-> <<>>], "get_materials")

\* what the caller keeps of a call that is over
Outcome == [result |-> result, exc |-> exc]

\* get_trisurface called once more, with the same arguments, after it has
\* returned or raised; previous keeps what the first call gave
get_trisurface_again ==
    /\ pc \in {"returned", "raised"}
    /\ call.fn = "get_trisurface"
    /\ previous = <<>>
    /\ previous' = <<Outcome>>
    /\ pc' = "get_materials"
    /\ ci' = 1
    /\ bm' = NoBMesh
    /\ mas' = <<>>
    /\ ran' = <<>>
    /\ failures' = <<>>
    /\ isect_bad_faces' = <<>>
    /\ exc' = NoExc
    /\ result' = NoResult
    /\ before' = [ob |-> ob, scene |-> scene]
    /\ steps' = <<>>
    /\ UNCHANGED <<ob, scene, call>>

\* mas = _get_materials(context, ob)
get_trisurface_materials ==
    /\ pc = "get_materials"
    /\ LET r == get_materials(ob)
       IN  IF r.ok
           THEN mas' = r.mas /\ pc' = "get_bmesh" /\ exc' = exc
           ELSE mas' = mas /\ pc' = "raised" /\ exc' = [kind |-> r.msg, n |-> 0]
    /\ UNCHANGED <<ob, scene, call, ci, bm, ran, failures, isect_bad_faces, result, before, previous, steps>>

\* get_trisurface that writes the mesh model it gets back into the object
get_trisurface_bmesh_in_place ==
    /\ pc = "get_bmesh"
    /\ call.fn = "get_trisurface"
    /\ bm' = get_object_bmesh(ob, <<0, 0, 0>>, TRUE, TRUE)
    /\ ob' = [ob EXCEPT !.data = to_mesh(bm')]
    /\ pc' = IF call.check THEN "quality" ELSE "extract"
    /\ UNCHANGED <<scene, call, ci, mas, ran, failures, isect_bad_faces, exc, result, before,
                   previous, steps>>

\* get_trisurface that checks the quality whatever check says
get_trisurface_bmesh_checking ==
    /\ pc = "get_bmesh"
    /\ call.fn = "get_trisurface"
    /\ bm' = get_object_bmesh(ob, <<0, 0, 0>>, TRUE, TRUE)
    /\ pc' = "quality"
    /\ UNCHANGED <<ob, scene, call, ci, mas, ran, failures, isect_bad_faces, exc, result, before,
                   previous, steps>>

\* bm = utils.get_object_bmesh(..., world=True, triangulate=True)
get_trisurface_bmesh ==
    /\ pc = "get_bmesh"
    /\ call.fn = "get_trisurface"
    /\ bm' = get_object_bmesh(ob, <<0, 0, 0>>, TRUE, TRUE)
    /\ pc' = IF call.check THEN "quality" ELSE "extract"
    /\ UNCHANGED <<ob, scene, call, ci, mas, ran, failures, isect_bad_faces, exc, result, before, previous, steps>>

\* extract verts and faces from bmesh, clean up, return
get_trisurface_extract ==
    /\ pc = "extract"
    /\ result' = [returned |-> TRUE,
                  mas |-> mas,
                  verts |-> [i \in 1 .. Len(bm.co) |-> VScale(bm.co[i], call.scale_length)],
                  faces |-> [k \in 1 .. Len(bm.faces) |->
                                <<bm.faces[k][1] + 1, bm.faces[k][2] + 1, bm.faces[k][3] + 1,
                                  bm.mat[k] + 1>>]]
    /\ bm' = [bm EXCEPT !.valid = FALSE]
    /\ pc' = "returned"
    /\ UNCHANGED <<ob, scene, call, ci, mas, ran, failures, isect_bad_faces, exc, before, previous, steps>>

\* check_geom_quality(context, ob, protect)
check_geom_quality(protect) ==
    Enter([fn |-> "check_geom_quality", protect |-> protect, check |-> TRUE,
           scale_length |-> 1, other_obs |-> <<>>], "get_bmesh")

\* bm = utils.get_object_bmesh(..., world=False, triangulate=True)
check_geom_quality_bmesh ==
    /\ pc = "get_bmesh"
    /\ call.fn = "check_geom_quality"
    /\ bm' = get_object_bmesh(ob, <<0, 0, 0>>, FALSE, TRUE)
    /\ pc' = "quality"
    /\ UNCHANGED <<ob, scene, call, ci, mas, ran, failures, isect_bad_faces, exc, result, before, previous, steps>>

\* bm.free() and return
check_geom_quality_free ==
    /\ pc = "free"
    /\ bm' = [bm EXCEPT !.valid = FALSE]
    /\ pc' = "returned"
    /\ UNCHANGED <<ob, scene, call, ci, mas, ran, failures, isect_bad_faces, exc, result, before, previous, steps>>

\* check_intersections(context, ob, other_obs, protect)
check_intersections(other_obs, protect) ==
    Enter([fn |-> "check_intersections", protect |-> protect, check |-> TRUE,
           scale_length |-> 1, other_obs |-> other_obs], "intersect_self")

\* object mode, the BMesh and its tree, the self-intersections
check_intersections_self ==
    /\ pc = "intersect_self"
    /\ scene' = IF scene.active # None THEN [scene EXCEPT !.mode = "OBJECT"] ELSE scene
    /\ LET b == get_object_bmesh(ob, <<0, 0, 0>>, FALSE, FALSE)
           tree == FromBMesh(b, "tree")
       IN  /\ bm' = b
           /\ isect_bad_faces' = get_bm_intersected_faces(b, tree, tree)
    /\ ci' = 1
    /\ pc' = "intersect_others"
    /\ UNCHANGED <<ob, call, mas, ran, failures, exc, result, before, previous, steps>>

\* one turn of the loop over other_obs
check_intersections_other ==
    /\ pc = "intersect_others"
    /\ ci <= Len(call.other_obs)
    /\ LET other_ob == call.other_obs[ci]
           matrix == VAdd(VNeg(ob.matrix_world), other_ob.matrix_world)
           other_bm == get_object_bmesh(ob, matrix, FALSE, FALSE)
           tree == FromBMesh(bm, "tree")
           other_tree == FromBMesh(other_bm, "other_tree")
       IN  isect_bad_faces' = isect_bad_faces \o get_bm_intersected_faces(bm, tree, other_tree)
    /\ ci' = ci + 1
    /\ UNCHANGED <<ob, scene, call, pc, bm, mas, ran, failures, exc, result, before, previous, steps>>

\* after the loop: raise when there are bad faces
check_intersections_raise ==
    /\ pc = "intersect_others"
    /\ ci > Len(call.other_obs)
    /\ LET r == raise_bad_geometry(scene, ob, bm, [kind |-> "Intersection", n |-> 0],
                                   call.protect, <<>>, <<>>, isect_bad_faces)
       IN  IF isect_bad_faces # <<>>
           THEN /\ failures' = Append(failures, Failure("Intersection", <<>>, <<>>, isect_bad_faces))
                /\ ob' = r.ob
                /\ scene' = r.scene
                /\ bm' = r.bm
                /\ steps' = r.steps
                /\ IF r.raised
                   THEN exc' = r.exc /\ pc' = "raised"
                   ELSE exc' = exc /\ pc' = "returned"
           ELSE /\ pc' = "returned"
                /\ UNCHANGED <<ob, scene, bm, failures, exc, steps>>
    /\ UNCHANGED <<call, ci, mas, ran, isect_bad_faces, result, before, previous>>

(***************************************************************************)
(* The objects and scenes the runs start from.                             *)
(***************************************************************************)
Mesh(co, faces, mat, wire) ==
    [co |-> co, faces |-> faces, mat |-> mat, wire |-> wire,
     vsel |-> {}, esel |-> {}, fsel |-> {}]

Object(data, modifiers, material_slots, matrix_world) ==
    [data |-> data, modifiers |-> modifiers, material_slots |-> material_slots,
     matrix_world |-> matrix_world]

Slot(material, bf_surf_export) == [material |-> material, bf_surf_export |-> bf_surf_export]

\* the triangles on four vertices, in both windings
Tri4 ==
    << <<0, 2, 1>>, <<0, 1, 2>>, <<0, 1, 3>>, <<0, 3, 1>>,
       <<0, 3, 2>>, <<0, 2, 3>>, <<1, 2, 3>>, <<1, 3, 2>> >>

\* every choice of at most MaxFaces of them
Tri4Faces ==
    {[k \in 1 .. Cardinality(S) |-> Tri4[SortedSeq(S)[k]]] :
        S \in {T \in SUBSET (1 .. Len(Tri4)) : Cardinality(T) <= MaxFaces}}

\* a tetrahedron closed and wound outwards in the regular layout
TetraFaces == <<Tri4[1], Tri4[3], Tri4[5], Tri4[7]>>

RegularLayout == << <<0, 0, 0>>, <<4, 0, 0>>, <<0, 4, 0>>, <<0, 0, 4>> >>

\* positions of the four vertices: regular, with a short edge 0-3, with
\* vertex 3 on the line 1-2, with vertex 3 on vertex 2
Layouts ==
    { RegularLayout,
      << <<0, 0, 0>>, <<4, 0, 0>>, <<0, 4, 0>>, <<0, 0, 1>> >>,
      << <<0, 0, 0>>, <<4, 0, 0>>, <<0, 4, 0>>, <<2, 2, 0>> >>,
      << <<0, 0, 0>>, <<4, 0, 0>>, <<0, 4, 0>>, <<0, 4, 0>> >> }

Zeros(faces) == [k \in 1 .. Len(faces) |-> 0]

\* a box of side 4, its six faces quads wound outwards
BoxCo ==
    << <<0, 0, 0>>, <<4, 0, 0>>, <<4, 4, 0>>, <<0, 4, 0>>,
       <<0, 0, 4>>, <<4, 0, 4>>, <<4, 4, 4>>, <<0, 4, 4>> >>

BoxFaces ==
    << <<0, 3, 2, 1>>, <<4, 5, 6, 7>>, <<0, 1, 5, 4>>,
       <<1, 2, 6, 5>>, <<2, 3, 7, 6>>, <<3, 0, 4, 7>> >>

Cube == Mesh(BoxCo, BoxFaces, Zeros(BoxFaces), {})

\* the box with its top face missing
OpenBox == Mesh(BoxCo, <<BoxFaces[1]>> \o SubSeq(BoxFaces, 3, 6), <<0, 0, 0, 0, 0>>, {})

\* the box with its top face wound the other way
FlippedBox ==
    Mesh(BoxCo, <<BoxFaces[1], <<7, 6, 5, 4>>>> \o SubSeq(BoxFaces, 3, 6), Zeros(BoxFaces), {})

\* two closed tetrahedra that share vertex 0 and nothing else
TwoWheels ==
    Mesh(<< <<0, 0, 0>>, <<4, 0, 0>>, <<0, 4, 0>>, <<0, 0, 4>>,
            <<-4, 0, 0>>, <<0, -4, 0>>, <<0, 0, -4>> >>,
         TetraFaces \o << <<0, 4, 5>>, <<0, 6, 4>>, <<0, 5, 6>>, <<4, 6, 5>> >>,
         <<0, 0, 0, 0, 0, 0, 0, 0>>, {})

\* a triangle with a face on each side: a closed surface on three vertices
Pillow(a, b, c) == << <<a, b, c>>, <<a, c, b>> >>

\* two such surfaces apart from each other but for vertices 0 and 3, which
\* are in the same place
TwoPillows ==
    Mesh(<< <<0, 0, 0>>, <<4, 0, 0>>, <<0, 4, 0>>,
            <<0, 0, 0>>, <<-4, 0, 3>>, <<0, -4, 3>> >>,
         Pillow(0, 1, 2) \o Pillow(3, 4, 5), <<0, 0, 0, 0>>, {})

\* three such surfaces, in the order they are given by perm: one has a
\* vertex A, one a vertex B at distance 1 of A, one a vertex C at distance 1
\* of B and 2 of A; all other vertices are far from each other
PillowParts ==
    << << <<0, 0, 0>>, <<4, 0, 0>>, <<0, 4, 0>> >>,
       << <<0, 0, 1>>, <<-4, 0, 4>>, <<0, -4, 4>> >>,
       << <<0, 0, 2>>, <<4, 0, 7>>, <<0, 4, 7>> >> >>

ThreePillows(perm) ==
    Mesh(PillowParts[perm[1]] \o PillowParts[perm[2]] \o PillowParts[perm[3]],
         Pillow(0, 1, 2) \o Pillow(3, 4, 5) \o Pillow(6, 7, 8), <<0, 0, 0, 0, 0, 0>>, {})

PillowOrders == {<<1, 2, 3>>, <<2, 1, 3>>, <<3, 1, 2>>}

\* a closed tetrahedron and a fifth vertex that is part of nothing
TetraAndLoose ==
    Mesh(RegularLayout \o << <<9, 9, 9>> >>, TetraFaces, Zeros(TetraFaces), {})

\* two such surfaces, the second standing across the first
CrossedPillows ==
    Mesh(<< <<0, 0, 0>>, <<4, 0, 0>>, <<0, 4, 0>>,
            <<1, 1, -2>>, <<1, 1, 2>>, <<5, 5, 0>> >>,
         Pillow(0, 1, 2) \o Pillow(3, 4, 5), <<0, 0, 0, 0>>, {})

NamedMeshes ==
    {Cube, OpenBox, FlippedBox, TwoWheels, TwoPillows, TetraAndLoose, CrossedPillows}
        \cup {ThreePillows(perm) : perm \in PillowOrders}

\* the meshes on four vertices, in every layout, and in the regular layout
\* also with a wire edge 2-3
Tri4Meshes ==
    {Mesh(co, faces, Zeros(faces), {}) : co \in Layouts, faces \in Tri4Faces}
        \cup {Mesh(RegularLayout, faces, Zeros(faces), {{2, 3}}) : faces \in Tri4Faces}

\* material slots: unbound, bound to an exported or to a non-exported material
SlotValues == {Slot(None, FALSE), Slot("A", TRUE), Slot("A", FALSE), Slot("B", TRUE)}

SlotConfigs == UNION {[1 .. n -> SlotValues] : n \in 0 .. MaxSlots}

\* material indices of the faces: the first face one index, the others another;
\* the host lets a face carry an index for which the object has no slot
MatIndices(faces) ==
    {[k \in 1 .. Len(faces) |-> IF k = 1 THEN a ELSE b] : a, b \in 0 .. MaxSlots}

OneSlot == <<Slot("A", TRUE)>>

Scene(mode, active, selected) ==
    [mode |-> mode, active |-> active, selected |-> selected, select_mode |-> "VERT",
     bf_config_min_edge_length |-> 1, bf_config_min_face_area |-> 1]

PlainScene == Scene("OBJECT", None, {})

\* the scene with other tolerances (bf_config_min_edge_length, bf_config_min_face_area)
SceneWith(epsilon_len, epsilon_area) ==
    [PlainScene EXCEPT !.bf_config_min_edge_length = epsilon_len,
                       !.bf_config_min_face_area = epsilon_area]

Tolerances == {0, 1, 2}

Scenes ==
    {PlainScene, Scene("EDIT", ObName, {ObName}), Scene("OBJECT", "other", {ObName, "other"})}

\* the meshes that also start with modifiers, a world matrix, a selection and
\* the other scenes
VariedFaces ==
    {TetraFaces, <<Tri4[1]>>, <<Tri4[1], Tri4[4], Tri4[5], Tri4[7]>>,
     <<Tri4[2], Tri4[4], Tri4[6], Tri4[8]>>}

Worlds ==
    {<<Object(m, <<>>, OneSlot, <<0, 0, 0>>), PlainScene>> : m \in Tri4Meshes \cup NamedMeshes}
    \cup
    {<<Object(Mesh(RegularLayout, TetraFaces, mat, {}), <<>>, slots, <<0, 0, 0>>), PlainScene>> :
        mat \in MatIndices(TetraFaces), slots \in SlotConfigs}
    \cup
    {<<Object([Mesh(co, faces, Zeros(faces), {}) EXCEPT !.vsel = vsel],
              mods, OneSlot, world), sc>> :
        co \in Layouts, faces \in VariedFaces, vsel \in {{}, {0}},
        mods \in {<<>>, << <<1, 0, 0>> >>}, world \in {<<0, 0, 0>>, <<0, 0, 2>>},
        sc \in Scenes}
    \cup
    {<<Object(Mesh(co, TetraFaces, Zeros(TetraFaces), {}), <<>>, OneSlot, <<0, 0, 0>>),
       SceneWith(epsilon_len, epsilon_area)>> :
        co \in Layouts, epsilon_len \in Tolerances, epsilon_area \in Tolerances}

\* the other objects a call of check_intersections may name: a box far away,
\* and two tetrahedra placed near the object
OtherObs ==
    LET o(name, data, w) == [name |-> name, data |-> data, modifiers |-> <<>>,
                             material_slots |-> OneSlot, matrix_world |-> w]
        tetra == Mesh(RegularLayout, TetraFaces, Zeros(TetraFaces), {})
    IN  {<<>>, <<o("far", Cube, <<20, 0, 0>>)>>,
         <<o("other", tetra, <<1, 1, 1>>), o("pierce", tetra, <<1, 1, -1>>)>>}

Init ==
    /\ \E w \in Worlds : ob = w[1] /\ scene = w[2]
    /\ call = NoCall
    /\ pc = "idle"
    /\ ci = 1
    /\ bm = NoBMesh
    /\ mas = <<>>
    /\ ran = <<>>
    /\ failures = <<>>
    /\ isect_bad_faces = <<>>
    /\ exc = NoExc
    /\ result = NoResult
    /\ before = [ob |-> ob, scene |-> scene]
    /\ previous = <<>>
    /\ steps = <<>>

Next ==
    \/ \E scale_length \in {1, 2}, check \in BOOLEAN : get_trisurface(scale_length, check)
    \/ get_trisurface_materials
    \/ get_trisurface_bmesh
    \/ get_trisurface_extract
    \/ get_trisurface_again
    \/ \E protect \in BOOLEAN : check_geom_quality(protect)
    \/ check_geom_quality_bmesh
    \/ check_geom_quality_free
    \/ check_bm_manifold_verts
    \/ check_bm_manifold_edges
    \/ check_bm_degenerate_edges
    \/ check_bm_degenerate_faces
    \/ check_bm_loose_vertices
    \/ check_bm_duplicate_vertices
    \/ check_bm_normals
    \/ \E other_obs \in OtherObs, protect \in BOOLEAN : check_intersections(other_obs, protect)
    \/ check_intersections_self
    \/ check_intersections_other
    \/ check_intersections_raise

Spec == Init /\ [][Next]_vars

(***************************************************************************)
(* Vocabulary of the properties.                                           *)
(***************************************************************************)
\* the failure the material slots of an object call for: none, or that of the
\* first slot, in slot order, that is unbound or bound to a material that is
\* not exported
MaterialDefect(slots) ==
    LET bad == {i \in 1 .. Len(slots) :
                   slots[i].material = None \/ ~slots[i].bf_surf_export}
        first == CHOOSE i \in bad : \A j \in bad : i <= j
    IN  IF Len(slots) = 0 THEN "NoMaterial"
        ELSE IF bad = {} THEN None
        ELSE IF slots[first].material = None THEN "EmptyMaterialSlot"
        ELSE "MaterialNotExported"

MaterialKinds == {"NoMaterial", "EmptyMaterialSlot", "MaterialNotExported"}

QualityRun == call.fn \in {"get_trisurface", "check_geom_quality"}

\* the run makes the quality checks
Validates ==
    \/ call.fn = "check_geom_quality"
    \/ call.fn = "get_trisurface" /\ call.check /\ MaterialDefect(before.ob.material_slots) = None

\* the call has returned or raised
Over == pc \in {"returned", "raised"}

\* the run has a mesh model
HasBMesh == bm.co # <<>>

\* the offending elements a check of the code collects on a mesh model
Offending(name, b) ==
    CASE name = "manifold_verts" -> bad_manifold_verts(b)
      [] name = "manifold_edges" -> bad_manifold_edges(b)
      [] name = "normals" -> bad_normals(b)
      [] name = "degenerate_edges" -> bad_degenerate_edges(b, scene.bf_config_min_edge_length)
      [] name = "degenerate_faces" -> bad_degenerate_faces(b, scene.bf_config_min_face_area)
      [] name = "loose_vertices" -> bad_loose_vertices(b)
      [] name = "duplicate_vertices" ->
             bad_duplicate_vertices(b, scene.bf_config_min_edge_length)

KindOf(name) ==
    CASE name = "manifold_verts" -> "NonManifoldVertex"
      [] name = "manifold_edges" -> "NonManifoldEdge"
      [] name = "normals" -> "InconsistentNormals"
      [] name = "degenerate_edges" -> "DegenerateEdge"
      [] name = "degenerate_faces" -> "DegenerateFace"
      [] name = "loose_vertices" -> "LooseVertex"
      [] name = "duplicate_vertices" -> "DuplicateVertex"

\* the order of the checks as the specification document lists them
DocumentOrder ==
    <<"manifold_verts", "manifold_edges", "normals", "degenerate_edges",
      "degenerate_faces", "loose_vertices", "duplicate_vertices">>

\* the order in which _check_bm_quality calls them
CalledOrder ==
    <<"manifold_verts", "manifold_edges", "degenerate_edges", "degenerate_faces",
      "loose_vertices", "duplicate_vertices", "normals">>

\* the position in order of the first check that finds something on b, 0 if none
FirstViolated(order, b) ==
    LET hit == {i \in 1 .. Len(order) : Offending(order[i], b) # <<>>}
    IN  IF hit = {} THEN 0 ELSE CHOOSE i \in hit : \A j \in hit : i <= j

\* a quality check has reported a failure
QualityFailed == QualityRun /\ failures # <<>>

RanCheck(name) == QualityRun /\ name \in Range(ran)

FailedAt(name) == QualityFailed /\ ran[Len(ran)] = name

\* C1 (as stated): the checks run in the order manifold vertices, manifold
\* edges, normal consistency, degenerate edges, degenerate faces, loose
\* vertices, duplicate vertices, and the failure reported is that of the
\* earliest violated check in this order.
C1_DocumentOrder ==
    QualityFailed =>
        /\ ran = SubSeq(DocumentOrder, 1, Len(ran))
        /\ failures[1].kind = KindOf(DocumentOrder[FirstViolated(DocumentOrder, bm)])

\* C1 (amended): the checks run in the order manifold vertices, manifold
\* edges, degenerate edges, degenerate faces, loose vertices, duplicate
\* vertices, normal consistency; the checks run so far are always a prefix of
\* this order and the failure reported is that of the earliest check of this
\* order that finds an offending element.
C1_CalledOrder ==
    QualityRun =>
        /\ ran = SubSeq(CalledOrder, 1, Len(ran))
        /\ failures # <<>> =>
               failures[1].kind = KindOf(CalledOrder[FirstViolated(CalledOrder, bm)])

\* C1 witness: a too short edge is reported on a mesh that also has an
\* inconsistently wound edge.
C1_Witness ==
    /\ QualityFailed
    /\ pc = "raised"
    /\ failures[1].kind = "DegenerateEdge"
    /\ bad_normals(bm) # <<>>

\* C2: a run of the quality validator raises at most one failure, which carries
\* the offending elements of exactly one check, the last one run; no check runs
\* after it; and a mesh on which no check finds anything raises no failure.
C2_FailFast ==
    QualityRun =>
        /\ Len(failures) <= 1
        /\ failures # <<>> =>
               LET f == failures[1]
                   name == ran[Len(ran)]
               IN  /\ pc = "raised"
                   /\ exc.kind = f.kind
                   /\ f.kind = KindOf(name)
                   /\ f.bad_verts \o f.bad_edges \o f.bad_faces = Offending(name, bm)
                   /\ Cardinality({x \in {f.bad_verts, f.bad_edges, f.bad_faces} : x # <<>>}) = 1
                   /\ \A i, j \in 1 .. Len(ran) : ran[i] = ran[j] => i = j
        /\ (Over /\ HasBMesh /\ FirstViolated(CalledOrder, bm) = 0) =>
               (failures = <<>> /\ exc = NoExc /\ pc = "returned")

\* C2 witness: an unprotected check has reported a failure and the run is over.
C2_Witness ==
    /\ QualityFailed
    /\ ~call.protect
    /\ pc = "raised"
    /\ Len(ran) < Len(CalledOrder)

\* C3: get_trisurface checks the materials before any geometry work: with no
\* slot it fails with NoMaterial, otherwise with the failure of the first
\* defective slot (EmptyMaterialSlot if it is unbound, MaterialNotExported if
\* its material is not exported), and then no mesh is built and no check runs.
C3_MaterialsFirst ==
    (call.fn = "get_trisurface" /\ pc # "get_materials") =>
        LET defect == MaterialDefect(ob.material_slots)
        IN  IF defect # None
            THEN /\ pc = "raised"
                 /\ exc = [kind |-> defect, n |-> 0]
                 /\ bm = NoBMesh
                 /\ ran = <<>>
                 /\ failures = <<>>
                 /\ result = NoResult
            ELSE exc.kind \notin MaterialKinds

\* C3 witness: the first slot is bound to a material that is not exported and
\* a later slot is unbound.
C3_Witness ==
    /\ call.fn = "get_trisurface"
    /\ pc = "raised"
    /\ exc.kind = "MaterialNotExported"
    /\ \E i \in 1 .. Len(ob.material_slots) : ob.material_slots[i].material = None

\* C4 (as stated): in every surface get_trisurface returns, the vertex indices
\* of every face are in 1 .. len(verts) and its material index in 1 .. len(mas).
C4_IndicesInRange ==
    result.returned =>
        \A k \in 1 .. Len(result.faces) :
            /\ \A i \in 1 .. 3 : result.faces[k][i] \in 1 .. Len(result.verts)
            /\ result.faces[k][4] \in 1 .. Len(result.mas)

\* C5: get_trisurface exports nothing partial: a failure leaves no materials,
\* vertices or faces and is the only one, and a surface is returned only when
\* the materials are in order and, with check set, no check found anything.
C5_NoPartialExport ==
    call.fn = "get_trisurface" =>
        /\ (exc # NoExc \/ failures # <<>>) =>
               (pc = "raised" /\ result = NoResult /\ exc # NoExc /\ Len(failures) <= 1)
        /\ (Over /\ (MaterialDefect(before.ob.material_slots) # None
                         \/ (call.check /\ HasBMesh /\ FirstViolated(CalledOrder, bm) # 0))) =>
               result = NoResult
        /\ result.returned =>
               /\ pc = "returned"
               /\ exc = NoExc
               /\ failures = <<>>
               /\ MaterialDefect(before.ob.material_slots) = None
               /\ call.check => (Len(ran) = Len(CalledOrder) /\ FirstViolated(CalledOrder, bm) = 0)

\* C5 witness: get_trisurface has failed on the geometry with the materials in
\* order, and nothing is returned.
C5_Witness ==
    /\ call.fn = "get_trisurface"
    /\ pc = "raised"
    /\ failures # <<>>
    /\ mas # <<>>
    /\ result = NoResult

\* C6: a failure reported with protect set leaves the host as it was when the
\* call was made: the object (its mesh data with the selection flags of the
\* elements, its modifiers), the selected objects and the active object, in
\* get_trisurface, check_geom_quality and check_intersections alike.
C6_ProtectedFailure ==
    (pc = "raised" /\ call.protect) =>
        /\ ob = before.ob
        /\ scene.selected = before.scene.selected
        /\ scene.active = before.scene.active

\* C6 witness: check_intersections has reported an intersection with protect
\* set, on an object that has a modifier and a selected vertex, in a scene with
\* another object active.
C6_Witness ==
    /\ pc = "raised"
    /\ call.protect
    /\ call.fn = "check_intersections"
    /\ failures # <<>>
    /\ ob.modifiers # <<>>
    /\ ob.data.vsel # {}
    /\ scene.active = "other"

\* what of a mesh model the checks are to leave alone: positions, faces with
\* their winding (hence normals), material indices, wire edges, selection
Geometry(b) == [b EXCEPT !.valid = TRUE]

\* C7 (as stated): a check that finds no offending element leaves the mesh
\* model exactly as it was, with protect set or not.
C7_ChecksPure ==
    [][(pc = "quality" /\ failures' = failures) => Geometry(bm') = Geometry(bm)]_vars

\* C7 (amended): a check that finds no offending element leaves the mesh model
\* exactly as it was, except the normal-consistency check of an unprotected
\* run, which then recalculates the face normals and may turn faces over.
C7_ChecksPureButNormals ==
    [][(/\ pc = "quality"
        /\ failures' = failures
        /\ (call.protect \/ check_bm_quality[ci] # "normals"))
           => Geometry(bm') = Geometry(bm)]_vars

\* C7 witness: a protected run in which all seven checks found nothing, on a
\* closed surface wound inwards.
C7_Witness ==
    /\ QualityRun
    /\ call.protect
    /\ pc = "returned"
    /\ Len(ran) = Len(CalledOrder)
    /\ failures = <<>>
    /\ SumVolume(bm, Faces(bm)) < 0

\* the edges that are not shared by exactly two triangles
NotTwoTriangles(b) == {e \in Edges(b) : Cardinality(EdgeFaces(b, e)) # 2}

\* C8: the manifold-edge check fails, with NonManifoldEdge, exactly when some
\* edge is not shared by exactly two triangles, and its offending elements are
\* exactly these edges, each once; on the box with one face missing they are
\* the four edges of the open rim.
C8_ManifoldEdges ==
    /\ RanCheck("manifold_edges") =>
           /\ FailedAt("manifold_edges") <=> NotTwoTriangles(bm) # {}
           /\ FailedAt("manifold_edges") =>
                  /\ failures[1].kind = "NonManifoldEdge"
                  /\ Range(failures[1].bad_edges) = NotTwoTriangles(bm)
                  /\ Len(failures[1].bad_edges) = Cardinality(NotTwoTriangles(bm))
                  /\ exc.n = Cardinality(NotTwoTriangles(bm))
    /\ (Validates /\ Over /\ before.ob.data = OpenBox) =>
           /\ FailedAt("manifold_edges")
           /\ Range(failures[1].bad_edges) = {{4, 5}, {5, 6}, {6, 7}, {4, 7}}

\* C8 witness: the check has failed on the box with one face missing.
C8_Witness ==
    /\ before.ob.data = OpenBox
    /\ FailedAt("manifold_edges")
    /\ Len(failures[1].bad_edges) = 4

\* face f runs along the edge from a to c
Traverses(b, f, a, c) ==
    LET p == FaceVerts(b, f)
    IN  \E i \in 1 .. Len(p) : p[i] = a /\ p[(i % Len(p)) + 1] = c

\* the edges shared by exactly two triangles that both run along them in the
\* same direction
SameDirection(b) ==
    {e \in Edges(b) :
        /\ Cardinality(EdgeFaces(b, e)) = 2
        /\ \E a, c \in e : a # c /\ \A f \in EdgeFaces(b, e) : Traverses(b, f, a, c)}

\* C9: the normal-consistency check fails, with InconsistentNormals, exactly
\* when some edge shared by exactly two triangles is run along in the same
\* direction by both, and its offending elements are exactly these edges; a
\* mesh whose shared edges are all run along in opposite directions passes.
C9_Normals ==
    RanCheck("normals") =>
        /\ FailedAt("normals") <=> SameDirection(bm) # {}
        /\ FailedAt("normals") =>
               /\ failures[1].kind = "InconsistentNormals"
               /\ Range(failures[1].bad_edges) = SameDirection(bm)
               /\ Len(failures[1].bad_edges) = Cardinality(SameDirection(bm))

\* C9 witness: the check has failed on a closed surface.
C9_Witness ==
    /\ FailedAt("normals")
    /\ pc = "raised"
    /\ NotTwoTriangles(bm) = {}

\* the triangles around v can be walked as a single fan: every edge at v
\* between them has one or two of them, and stepping over the shared edges
\* from one of them reaches them all (a vertex without triangles has no fan to
\* walk)
SingleFan(b, v) ==
    \/ VertFaces(b, v) = {}
    \/ /\ \A f \in VertFaces(b, v) : \A e \in FaceEdges(b, f) :
              v \in e => Cardinality(EdgeFaces(b, e)) \in {1, 2}
       /\ FanRegion(b, v, {FanStart(b, v)}) = VertFaces(b, v)

NotSingleFan(b) == {v \in Verts(b) : ~SingleFan(b, v)}

\* C10 (as stated): the manifold-vertex check fails, with NonManifoldVertex,
\* exactly when the triangles around some vertex cannot be walked as a single
\* fan, and its offending elements are exactly these vertices.
C10_ManifoldVerts ==
    RanCheck("manifold_verts") =>
        /\ FailedAt("manifold_verts") <=> NotSingleFan(bm) # {}
        /\ FailedAt("manifold_verts") =>
               /\ failures[1].kind = "NonManifoldVertex"
               /\ Range(failures[1].bad_verts) = NotSingleFan(bm)

\* the square of the distance between two vertices
DistSq(b, v, w) == VLenSq(VSub(b.co[v + 1], b.co[w + 1]))

\* the edges whose length is at most eps
ShortEdges(b, eps) ==
    {e \in Edges(b) : \A v, w \in e : v # w => DistSq(b, v, w) <= eps * eps}

\* C11: the degenerate-edge check fails, with DegenerateEdge, exactly when
\* some edge has a length less than or equal to epsilon_len (an edge of length
\* exactly epsilon_len is offending, a longer one is not), and its offending
\* elements are exactly these edges, each once.
C11_DegenerateEdges ==
    RanCheck("degenerate_edges") =>
        LET short == ShortEdges(bm, scene.bf_config_min_edge_length)
        IN  /\ FailedAt("degenerate_edges") <=> short # {}
            /\ FailedAt("degenerate_edges") =>
                   /\ failures[1].kind = "DegenerateEdge"
                   /\ Range(failures[1].bad_edges) = short
                   /\ Len(failures[1].bad_edges) = Cardinality(short)
                   /\ exc.n = Cardinality(short)

\* C11 witness: the check has failed on an edge of length exactly epsilon_len,
\* with a tolerance that is not zero, and has not reported a longer edge.
C11_Witness ==
    /\ FailedAt("degenerate_edges")
    /\ scene.bf_config_min_edge_length > 0
    /\ \E e \in Range(failures[1].bad_edges) :
           EdgeLenSq(bm, e) = scene.bf_config_min_edge_length * scene.bf_config_min_edge_length
    /\ \E e \in Edges(bm) : e \notin Range(failures[1].bad_edges)

\* the triangles whose area is at most eps
SmallFaces(b, eps) ==
    {f \in Faces(b) :
        LET p == FaceVerts(b, f)
            n == VCross(VSub(b.co[p[2] + 1], b.co[p[1] + 1]), VSub(b.co[p[3] + 1], b.co[p[1] + 1]))
        IN  n[1] * n[1] + n[2] * n[2] + n[3] * n[3] <= (2 * eps) * (2 * eps)}

\* C12: the degenerate-face check reports exactly the triangles whose area is
\* less than or equal to epsilon_area; a triangle offending under a tolerance
\* is offending under every larger one, and a triangle of zero area is
\* offending under every tolerance, zero included.
C12_DegenerateFaces ==
    /\ RanCheck("degenerate_faces") =>
           LET small == SmallFaces(bm, scene.bf_config_min_face_area)
           IN  /\ FailedAt("degenerate_faces") <=> small # {}
               /\ FailedAt("degenerate_faces") =>
                      /\ failures[1].kind = "DegenerateFace"
                      /\ Range(failures[1].bad_faces) = small
    /\ (QualityRun /\ HasBMesh) =>
           /\ \A eps1, eps2 \in Tolerances :
                  eps1 <= eps2 =>
                      Range(bad_degenerate_faces(bm, eps1)) \subseteq Range(bad_degenerate_faces(bm, eps2))
           /\ \A f \in Faces(bm) : \A eps \in Tolerances :
                  FaceArea2Sq(bm, f) = 0 => f \in Range(bad_degenerate_faces(bm, eps))

\* C12 witness: the check has failed under the largest tolerance on a triangle
\* of zero area, which is offending under the smaller ones too, on a mesh with
\* a triangle that is not offending.
C12_Witness ==
    /\ FailedAt("degenerate_faces")
    /\ \A eps \in Tolerances : eps <= scene.bf_config_min_face_area
    /\ \E f \in Range(failures[1].bad_faces) :
           FaceArea2Sq(bm, f) = 0 /\ f \in Range(bad_degenerate_faces(bm, 0))
    /\ \E f \in Faces(bm) : f \notin Range(failures[1].bad_faces)

\* the vertices that are part of no edge
LooseVerts(b) == {v \in Verts(b) : \A e \in Edges(b) : v \notin e}

\* the vertices with another vertex at a distance of at most eps
CloseVerts(b, eps) ==
    {v \in Verts(b) : \E w \in Verts(b) : w # v /\ DistSq(b, v, w) <= eps * eps}

\* the only defect of the mesh is that it has loose vertices
OnlyLooseVerts(b) ==
    /\ LooseVerts(b) # {}
    /\ NotSingleFan(b) = {}
    /\ NotTwoTriangles(b) = {}
    /\ SameDirection(b) = {}
    /\ ShortEdges(b, scene.bf_config_min_edge_length) = {}
    /\ SmallFaces(b, scene.bf_config_min_face_area) = {}
    /\ CloseVerts(b, scene.bf_config_min_edge_length) = {}

\* C13 (as stated): a mesh whose only defect is a vertex without edges fails
\* validation with LooseVertex, reported by the loose-vertex check, and the
\* offending elements are exactly the vertices without edges.
C13_LooseVertex ==
    (Validates /\ Over /\ HasBMesh /\ OnlyLooseVerts(bm)) =>
        /\ FailedAt("loose_vertices")
        /\ failures[1].kind = "LooseVertex"
        /\ Range(failures[1].bad_verts) = LooseVerts(bm)

\* C14: the duplicate-vertex check fails, with DuplicateVertex, exactly when
\* some vertex has another vertex within epsilon_len, and the vertices it
\* reports are exactly those: with a vertex every vertex within the radius of
\* it is reported too, along chains of any length, and a vertex with no other
\* vertex within the radius is not reported.
C14_DuplicateVertices ==
    RanCheck("duplicate_vertices") =>
        LET eps == scene.bf_config_min_edge_length
            close == CloseVerts(bm, eps)
        IN  /\ FailedAt("duplicate_vertices") <=> close # {}
            /\ FailedAt("duplicate_vertices") =>
                   LET reported == Range(failures[1].bad_verts)
                   IN  /\ failures[1].kind = "DuplicateVertex"
                       /\ reported = close
                       /\ \A v \in reported : \A w \in Verts(bm) :
                              DistSq(bm, v, w) <= eps * eps => w \in reported

\* C14 witness: the check has reported three vertices A, B, C with B within
\* the radius of A and of C, and C not within the radius of A, and has left
\* out another vertex.
C14_Witness ==
    /\ FailedAt("duplicate_vertices")
    /\ LET eps == scene.bf_config_min_edge_length
           reported == Range(failures[1].bad_verts)
       IN  /\ \E a, b, c \in reported :
                  /\ a # b /\ b # c /\ a # c
                  /\ DistSq(bm, a, b) <= eps * eps
                  /\ DistSq(bm, b, c) <= eps * eps
                  /\ DistSq(bm, a, c) > eps * eps
           /\ \E v \in Verts(bm) : v \notin reported

\* C15 (as stated): what the duplicate-vertex check reports does not depend on
\* the order of the vertices (on the three surfaces given in any order it is
\* the same three places), and no vertex is counted more than once, neither
\* in the offending elements nor in the number the message gives.
C15_DuplicateSet ==
    FailedAt("duplicate_vertices") =>
        LET bad_verts == failures[1].bad_verts
        IN  /\ (\E perm \in PillowOrders : before.ob.data = ThreePillows(perm)) =>
                   {bm.co[v + 1] : v \in Range(bad_verts)}
                       = {PillowParts[k][1] : k \in 1 .. Len(PillowParts)}
            /\ \A i, j \in 1 .. Len(bad_verts) : bad_verts[i] = bad_verts[j] => i = j
            /\ exc.n = Cardinality(Range(bad_verts))

IntersectionRun == call.fn = "check_intersections" /\ pc # "intersect_self"

\* the mesh model of the object a run of check_intersections works on
PrimaryBMesh == get_object_bmesh(before.ob, <<0, 0, 0>>, FALSE, FALSE)

\* inverse(primary world matrix) x (world matrix of the k-th other object)
RelativeMatrix(k) == VAdd(VNeg(before.ob.matrix_world), call.other_obs[k].matrix_world)

\* the mesh the primary mesh is tested against in turn k: as the code builds
\* it, and as built from the k-th other object
CodeOtherBMesh(k) == get_object_bmesh(before.ob, RelativeMatrix(k), FALSE, FALSE)
TrueOtherBMesh(k) == get_object_bmesh(call.other_obs[k], RelativeMatrix(k), FALSE, FALSE)

\* the faces of b with a triangle in an overlapping pair of its tree with the
\* tree of other_b, in index order; the faces in a pair of the tree with itself
CrossFaces(b, other_b) ==
    LET tree == FromBMesh(b, "tree")
        other_tree == FromBMesh(other_b, "other_tree")
    IN  SortedSeq({f \in Faces(b) :
            \E pr \in overlap(tree, other_tree) : tree.orig[pr[1]] = f})

SelfFaces(b) ==
    LET tree == FromBMesh(b, "tree")
    IN  SortedSeq({f \in Faces(b) : \E pr \in overlap(tree, tree) : tree.orig[pr[1]] = f})

\* the bad faces after n turns of the loop over the other objects
RECURSIVE ExpectedBadFaces(_, _)
ExpectedBadFaces(n, as_coded) ==
    IF n = 0 THEN SelfFaces(PrimaryBMesh)
    ELSE ExpectedBadFaces(n - 1, as_coded)
             \o CrossFaces(PrimaryBMesh,
                           IF as_coded THEN CodeOtherBMesh(n) ELSE TrueOtherBMesh(n))

\* C16: each call of the intersection detector gives the faces of the primary
\* mesh, never of the mesh it is tested against, that are in at least one
\* overlapping pair, each once, and nothing when no pair overlaps; for two
\* boxes apart by more than their diagonal check_intersections raises nothing.
C16_IntersectedFaces ==
    IntersectionRun =>
        /\ isect_bad_faces = ExpectedBadFaces(ci - 1, TRUE)
        /\ Range(isect_bad_faces) \subseteq Faces(PrimaryBMesh)
        /\ (Over /\ isect_bad_faces = <<>>) => (pc = "returned" /\ failures = <<>> /\ exc = NoExc)
        /\ (Over /\ before.ob.data = Cube /\ Len(call.other_obs) = 1
                 /\ VLenSq(RelativeMatrix(1)) > 3 * 4 * 4) =>
               (pc = "returned" /\ failures = <<>> /\ exc = NoExc)

\* C16 witness: the run has raised for faces found against another mesh, not
\* all faces of the primary mesh, the primary mesh not intersecting itself.
C16_Witness ==
    /\ IntersectionRun
    /\ pc = "raised"
    /\ SelfFaces(PrimaryBMesh) = <<>>
    /\ isect_bad_faces # <<>>
    /\ \E f \in Faces(PrimaryBMesh) : f \notin Range(isect_bad_faces)

\* C17 (as stated): in every turn of the loop over other_obs the primary mesh
\* is tested against the mesh of that other object, moved into the frame of
\* the primary mesh by inverse(primary world matrix) x (other world matrix).
C17_OtherGeometry ==
    IntersectionRun => isect_bad_faces = ExpectedBadFaces(ci - 1, FALSE)

\* two triangles of one mesh, given with their vertices, cross: they are not
\* the same triangle, do not share an edge, and have a common point that is
\* not a vertex they share
Cross(b, s, t) ==
    LET shared == Range(s) \cap Range(t)
        at(tri) == [i \in 1 .. 3 |-> b.co[tri[i] + 1]]
    IN  /\ Cardinality(shared) < 2
        /\ TriTriIntersect(at(s), at(t),
                           IF shared = {} THEN <<>> ELSE <<b.co[(CHOOSE v \in shared : TRUE) + 1]>>)

\* C18: the test of a mesh against itself reports a face only when one of its
\* triangles crosses another triangle of the mesh, never for a triangle and
\* itself or triangles next to each other along an edge or at a vertex; the
\* box and the closed tetrahedron, with no other objects, pass.
C18_NoFalseSelfIntersection ==
    (IntersectionRun /\ ci = 1) =>
        LET tri == Triangulate(PrimaryBMesh.faces, PrimaryBMesh.mat, 0)
        IN  /\ \A f \in Range(isect_bad_faces) :
                   \E i, j \in 1 .. Len(tri.faces) :
                       /\ tri.orig[i] = f
                       /\ i # j
                       /\ Cross(PrimaryBMesh, tri.faces[i], tri.faces[j])
            /\ (Over /\ before.ob.data \in {Cube, Mesh(RegularLayout, TetraFaces, Zeros(TetraFaces), {})}) =>
                   (pc = "returned" /\ failures = <<>> /\ exc = NoExc /\ isect_bad_faces = <<>>)

\* C18 witness: check_intersections has returned for the box alone.
C18_Witness ==
    /\ IntersectionRun
    /\ pc = "returned"
    /\ call.other_obs = <<>>
    /\ before.ob.data = Cube
    /\ failures = <<>>

\* the type of the offending elements each kind of failure is about
ElementType(kind) ==
    CASE kind \in {"NonManifoldVertex", "LooseVertex", "DuplicateVertex"} -> "VERT"
      [] kind \in {"NonManifoldEdge", "InconsistentNormals", "DegenerateEdge"} -> "EDGE"
      [] kind \in {"DegenerateFace", "Intersection"} -> "FACE"

\* C19: every failure that goes through _raise_bad_geometry has exactly one of
\* its three lists of offending elements populated, the one of the type its
\* kind is about: vertices for NonManifoldVertex, LooseVertex, DuplicateVertex;
\* edges for NonManifoldEdge, InconsistentNormals, DegenerateEdge; faces for
\* DegenerateFace and intersections.  An unprotected failure shows the object
\* in the select mode of that type.
C19_OneElementType ==
    /\ \A i \in 1 .. Len(failures) :
           LET f == failures[i]
               type == ElementType(f.kind)
           IN  /\ (f.bad_verts # <<>>) <=> (type = "VERT")
               /\ (f.bad_edges # <<>>) <=> (type = "EDGE")
               /\ (f.bad_faces # <<>>) <=> (type = "FACE")
    /\ (pc = "raised" /\ failures # <<>> /\ ~call.protect) =>
           scene.select_mode = ElementType(failures[1].kind)

\* C19 witness: an unprotected run has raised for degenerate faces.
C19_Witness ==
    /\ pc = "raised"
    /\ ~call.protect
    /\ failures # <<>>
    /\ failures[1].kind = "DegenerateFace"
    /\ failures[1].bad_faces # <<>>
    /\ scene.select_mode = "FACE"

\* C20 (as stated): the materials list get_trisurface returns has no name
\* twice, also when a material is bound to several slots, and the material
\* index of each face designates in it the name of the material bound to the
\* slot of that face.
C20_Deduplicated ==
    result.returned =>
        /\ \A i, j \in 1 .. Len(result.mas) : result.mas[i] = result.mas[j] => i = j
        /\ \A k \in 1 .. Len(result.faces) :
               (result.faces[k][4] \in 1 .. Len(result.mas)) =>
                   result.mas[result.faces[k][4]]
                       = before.ob.material_slots[bm.mat[k] + 1].material

\* the offending elements a check collects on a mesh model under given tolerances
OffendingWith(name, b, epsilon_len, epsilon_area) ==
    CASE name = "manifold_verts" -> bad_manifold_verts(b)
      [] name = "manifold_edges" -> bad_manifold_edges(b)
      [] name = "normals" -> bad_normals(b)
      [] name = "degenerate_edges" -> bad_degenerate_edges(b, epsilon_len)
      [] name = "degenerate_faces" -> bad_degenerate_faces(b, epsilon_area)
      [] name = "loose_vertices" -> bad_loose_vertices(b)
      [] name = "duplicate_vertices" -> bad_duplicate_vertices(b, epsilon_len)

NoDiagnostic == [kind |-> None, elements |-> <<>>]

\* what get_trisurface is to report for an object: the material defect, the
\* failure of the first check of the called order that finds something when
\* check is set, or nothing
Diagnostic(o, epsilon_len, epsilon_area, check) ==
    LET defect == MaterialDefect(o.material_slots)
        b == get_object_bmesh(o, <<0, 0, 0>>, TRUE, TRUE)
        hit == {i \in 1 .. Len(CalledOrder) :
                   OffendingWith(CalledOrder[i], b, epsilon_len, epsilon_area) # <<>>}
        first == CHOOSE i \in hit : \A j \in hit : i <= j
    IN  IF defect # None THEN [kind |-> defect, elements |-> <<>>]
        ELSE IF check /\ hit # {}
        THEN [kind |-> KindOf(CalledOrder[first]),
              elements |-> OffendingWith(CalledOrder[first], b, epsilon_len, epsilon_area)]
        ELSE NoDiagnostic

\* what the run has reported
RunDiagnostic ==
    [kind |-> exc.kind,
     elements |-> IF failures = <<>> THEN <<>>
                  ELSE failures[1].bad_verts \o failures[1].bad_edges \o failures[1].bad_faces]

\* the object with every position multiplied by k
ScaleVec(a, k) == <<k * a[1], k * a[2], k * a[3]>>

ScaleObject(o, k) ==
    [o EXCEPT !.data.co = [i \in 1 .. Len(o.data.co) |-> ScaleVec(o.data.co[i], k)],
              !.modifiers = [i \in 1 .. Len(o.modifiers) |-> ScaleVec(o.modifiers[i], k)],
              !.matrix_world = ScaleVec(o.matrix_world, k)]

ScaleFactors == {2, 3}

GetTrisurfaceOver == call.fn = "get_trisurface" /\ pc \in {"returned", "raised"}

\* the exported vertices are the vertices of the mesh model, each of x, y, z
\* multiplied by scale_length, and neither the faces, the materials nor the
\* diagnostic depend on scale_length
ScaledByScaleLength ==
    /\ RunDiagnostic = Diagnostic(before.ob, scene.bf_config_min_edge_length,
                                  scene.bf_config_min_face_area, call.check)
    /\ result.returned =>
           /\ Len(result.verts) = Len(bm.co)
           /\ \A i \in 1 .. Len(bm.co) : \A c \in 1 .. 3 :
                  result.verts[i][c] = bm.co[i][c] * call.scale_length
           /\ result.faces = [k \in 1 .. Len(bm.faces) |->
                                 <<bm.faces[k][1] + 1, bm.faces[k][2] + 1, bm.faces[k][3] + 1,
                                   bm.mat[k] + 1>>]
           /\ result.mas = [i \in 1 .. Len(before.ob.material_slots) |->
                                before.ob.material_slots[i].material]

\* the mesh model of the object with every position multiplied by k has the
\* positions of this one multiplied by k, and the same faces
ScaledMeshModel(k) ==
    LET b == get_object_bmesh(ScaleObject(before.ob, k), <<0, 0, 0>>, TRUE, TRUE)
    IN  /\ b.co = [i \in 1 .. Len(bm.co) |-> ScaleVec(bm.co[i], k)]
        /\ b.faces = bm.faces
        /\ b.mat = bm.mat

ShortExportedEdges(b, scale_length, eps) ==
    {e \in Edges(b) :
        \A v, w \in e :
            v # w => scale_length * scale_length * DistSq(b, v, w) <= eps * eps}

\* C22 (as stated): the tolerances are compared with lengths in the units of
\* the exported vertices: the degenerate-edge check of get_trisurface reports
\* exactly the edges whose exported length is at most epsilon_len, for every
\* scale_length.
C22_ExportedUnits ==
    (call.fn = "get_trisurface" /\ RanCheck("degenerate_edges")) =>
        LET short == ShortExportedEdges(bm, call.scale_length, scene.bf_config_min_edge_length)
        IN  /\ FailedAt("degenerate_edges") <=> short # {}
            /\ FailedAt("degenerate_edges") => Range(failures[1].bad_edges) = short

\* C23: get_trisurface called a second time on the same object, with the same
\* scale and tolerances, gives what the first call gave (the same materials,
\* vertices and faces in the same order, or the same failure); a call leaves
\* the object and the scene as they were.
C23_Idempotent ==
    GetTrisurfaceOver =>
        /\ ob = before.ob
        /\ scene = before.scene
        /\ previous # <<>> => Outcome = previous[1]

\* C23 witness: the second call has returned a surface, for an object with a
\* modifier and a world matrix.
C23_Witness ==
    /\ GetTrisurfaceOver
    /\ previous # <<>>
    /\ result.returned
    /\ result.faces # <<>>
    /\ ob.modifiers # <<>>
    /\ ob.matrix_world # <<0, 0, 0>>

\* the number of triangles the first n faces of a mesh are made into
RECURSIVE TrianglesBefore(_, _)
TrianglesBefore(faces, n) ==
    IF n = 0 THEN 0 ELSE TrianglesBefore(faces, n - 1) + Len(faces[n]) - 2

\* the place in the world of vertex v of the object a call was made for
WorldPlace(v) ==
    LET o == before.ob
        RECURSIVE sum(_)
        sum(i) == IF i = 0 THEN <<0, 0, 0>>
                  ELSE LET a == sum(i - 1)
                           m == o.modifiers[i]
                       IN  <<a[1] + m[1], a[2] + m[2], a[3] + m[3]>>
        shift == sum(Len(o.modifiers))
    IN  [c \in 1 .. 3 |-> o.data.co[v + 1][c] + shift[c] + o.matrix_world[c]]

\* C24: a surface get_trisurface returns has one vertex per vertex of the
\* mesh, in mesh order (exported vertex i + 1 is mesh vertex i, in the world,
\* multiplied by scale_length), and one face per triangle of the triangulated
\* mesh, in mesh order (a face of n vertices gives n - 2 consecutive triangles
\* on its vertices, with its material index plus 1); the closed box with one
\* material gives 8 vertices, 12 triangles, 1 material and material index 1
\* in every face.
C24_ExportShape ==
    result.returned =>
        LET d == before.ob.data
        IN  /\ Len(result.verts) = Len(d.co)
            /\ \A v \in Verts(d) : \A c \in 1 .. 3 :
                   result.verts[v + 1][c] = WorldPlace(v)[c] * call.scale_length
            /\ Len(result.faces) = TrianglesBefore(d.faces, Len(d.faces))
            /\ \A f \in 1 .. Len(d.faces) : \A t \in 1 .. (Len(d.faces[f]) - 2) :
                   LET face == result.faces[TrianglesBefore(d.faces, f - 1) + t]
                   IN  /\ {face[1] - 1, face[2] - 1, face[3] - 1} \subseteq Range(d.faces[f])
                       /\ Cardinality({face[1], face[2], face[3]}) = 3
                       /\ face[4] = d.mat[f] + 1
            /\ (d = Cube /\ Len(before.ob.material_slots) = 1) =>
                   /\ Len(result.verts) = 8
                   /\ Len(result.faces) = 12
                   /\ Len(result.mas) = 1
                   /\ \A k \in 1 .. Len(result.faces) : result.faces[k][4] = 1

\* C24 witness: the box has been exported after all checks.
C24_Witness ==
    /\ result.returned
    /\ before.ob.data = Cube
    /\ call.check
    /\ Len(ran) = Len(CalledOrder)
    /\ Len(result.faces) = 12

\* the faces of the primary mesh that intersect the mesh itself or the mesh of
\* one of the other objects
IntersectedUnion ==
    Range(SelfFaces(PrimaryBMesh))
        \cup UNION {Range(CrossFaces(PrimaryBMesh, TrueOtherBMesh(k))) :
                       k \in 1 .. Len(call.other_obs)}

\* C25 (as stated): the offending faces of check_intersections are the union,
\* as sets, of the faces found against the mesh itself and against the mesh of
\* each of the other objects, whatever the order of these, and each face is
\* in it once.
C25_SetUnion ==
    (IntersectionRun /\ pc \in {"returned", "raised"}) =>
        /\ Range(isect_bad_faces) = IntersectedUnion
        /\ \A i, j \in 1 .. Len(isect_bad_faces) :
               isect_bad_faces[i] = isect_bad_faces[j] => i = j
        /\ failures # <<>> => failures[1].bad_faces = isect_bad_faces

\* C26 (as stated): the mesh model a run of get_trisurface, check_geom_quality
\* or check_intersections has obtained is released by the time the run returns
\* or raises, on every path, with protect set or not.
C26_Released ==
    (pc \in {"returned", "raised"} /\ HasBMesh) => ~bm.valid

\* C27 (as stated): a surface is handed to the caller only after the
\* intersection detector has run on the mesh and found nothing: a mesh that
\* intersects itself is never exported.
C27_IntersectionBeforeExport ==
    result.returned => SelfFaces(get_object_bmesh(before.ob, <<0, 0, 0>>, TRUE, TRUE)) = <<>>

\* what _raise_bad_geometry is to do, in order, when the object is not protected
SurfacingOrder ==
    <<"deselect_all", "select_bad", "modifiers_clear", "to_mesh", "free",
      "select_object", "mode_edit", "select_mode", "raise">>

\* C28: a failure reported with protect not set has, in this order, deselected
\* every element of the mesh model, selected the offending elements (with the
\* edges and vertices they are made of) and nothing else, cleared the
\* modifiers of the object, written the mesh model into its mesh data and
\* freed it, made the object the only selected and the active one, entered
\* EDIT mode in the select mode of the offending elements, and then raised; a
\* failure is raised on every path, protected or not.
C28_Surfacing ==
    /\ failures # <<>> => (pc = "raised" /\ exc.kind = failures[1].kind)
    /\ (pc = "raised" /\ failures # <<>> /\ call.protect) => steps = <<>>
    /\ (pc = "raised" /\ failures # <<>> /\ ~call.protect) =>
           LET f == failures[1]
               fs == Range(f.bad_faces)
               es == Range(f.bad_edges) \cup {e \in Edges(bm) : \E g \in fs : e \in FaceEdges(bm, g)}
               vs == Range(f.bad_verts) \cup {v \in Verts(bm) : \E e \in es : v \in e}
           IN  /\ steps = SurfacingOrder
               /\ ob.data.fsel = fs /\ ob.data.esel = es /\ ob.data.vsel = vs
               /\ ob.modifiers = <<>>
               /\ ob.data.co = bm.co /\ ob.data.faces = bm.faces /\ ob.data.mat = bm.mat
               /\ ~bm.valid
               /\ scene.selected = {ObName}
               /\ scene.active = ObName
               /\ scene.mode = "EDIT"
               /\ scene.select_mode = ElementType(f.kind)

\* C28 witness: an unprotected failure on an object that had a modifier and a
\* selected vertex that is not offending, in a scene with another object
\* active and selected.
C28_Witness ==
    /\ pc = "raised"
    /\ ~call.protect
    /\ failures # <<>>
    /\ before.ob.modifiers # <<>>
    /\ \E v \in before.ob.data.vsel : v \notin ob.data.vsel
    /\ before.scene.active = "other"
    /\ steps = SurfacingOrder

\* C29: with check not set get_trisurface runs no quality check and reports no
\* geometry failure: when the material slots are all bound to exported
\* materials it returns a surface, whatever the mesh, and otherwise it raises
\* the failure of the materials.
C29_NoCheck ==
    (call.fn = "get_trisurface" /\ ~call.check) =>
        /\ ran = <<>>
        /\ failures = <<>>
        /\ steps = <<>>
        /\ pc \in {"returned", "raised"} =>
               IF MaterialDefect(before.ob.material_slots) = None
               THEN pc = "returned" /\ result.returned /\ exc = NoExc
               ELSE /\ pc = "raised"
                    /\ result = NoResult
                    /\ exc.kind = MaterialDefect(before.ob.material_slots)

\* C29 witness: a surface is returned, with check not set, for a mesh that is
\* open.
C29_Witness ==
    /\ call.fn = "get_trisurface"
    /\ ~call.check
    /\ result.returned
    /\ NotTwoTriangles(bm) # {}
    /\ result.faces # <<>>

\* C30: the degenerate-edge check and the duplicate-vertex check use the same
\* radius epsilon_len and the first runs before the second, so when
\* DuplicateVertex is reported no two vertices joined by an edge are within
\* epsilon_len of each other, and every reported vertex has within epsilon_len
\* a vertex it is not joined with by an edge.
C30_DuplicatesNotJoined ==
    FailedAt("duplicate_vertices") =>
        LET eps == scene.bf_config_min_edge_length
        IN  /\ "degenerate_edges" \in Range(ran)
            /\ \A e \in Edges(bm) : \A v, w \in e :
                   v # w => DistSq(bm, v, w) > eps * eps
            /\ \A v \in Range(failures[1].bad_verts) :
                   \E w \in Range(failures[1].bad_verts) :
                       /\ w # v
                       /\ DistSq(bm, v, w) <= eps * eps
                       /\ {v, w} \notin Edges(bm)

\* C30 witness: DuplicateVertex is reported with a tolerance that is not zero.
C30_Witness ==
    /\ FailedAt("duplicate_vertices")
    /\ scene.bf_config_min_edge_length > 0
    /\ Edges(bm) # {}

====
